---- MODULE Spec2Model ----
(***************************************************************************)
(* Model of the Minervini trend screener (src/main.py): the indicator     *)
(* annotator _process_ticker, the data loader load_ticker_data, the        *)
(* condition evaluator check_conditions and the Streamlit driver run().    *)
(*                                                                         *)
(* Close prices are positive integers.  On integers of this size the       *)
(* float arithmetic of pandas is exact for sums, and a mean sum/window is  *)
(* kept as the exact fraction [n |-> sum, d |-> window]; comparisons of    *)
(* means are done by cross-multiplication.  The columns Date, Open, High,  *)
(* Low and Volume are carried through unchanged by the code and read by    *)
(* none of its computations; a row of the model holds Close and the        *)
(* derived columns.                                                        *)
(***************************************************************************)
EXTENDS Integers, Sequences, FiniteSets, TLC

(***************************************************************************)
(* Bounds of the model.                                                    *)
(***************************************************************************)
MaxRows == 400

(***************************************************************************)
(* Program constants.                                                      *)
(***************************************************************************)
SMA_SHORT == 50
SMA_MID == 150
SMA_LONG == 200
TREND_1M == 30
TREND_3M == 90
TREND_6M == 180
WK52 == 52 * 7

(***************************************************************************)
(* Cell values of a DataFrame: a number (an exact fraction n/d), a         *)
(* boolean, NaN, or Python's None (only ever held by prev_200ma).          *)
(***************************************************************************)
Num(n, d) == [k |-> "num", n |-> n, d |-> d]
Bool(b) == [k |-> "bool", n |-> IF b THEN 1 ELSE 0, d |-> 1]
NaN == [k |-> "nan", n |-> 0, d |-> 1]
None == [k |-> "none", n |-> 0, d |-> 1]

\* Python/numpy x > y on floats: False as soon as one side is NaN.
Gt(x, y) == x.k = "num" /\ y.k = "num" /\ x.n * y.d > y.n * x.d
\* x < y
Lt(x, y) == Gt(y, x)
\* x * (p/q) for a float literal p/q (1.25 = 5/4, 0.75 = 3/4, 1.3 = 13/10)
Times(x, p, q) == IF x.k = "num" THEN Num(x.n * p, x.d * q) ELSE NaN
\* Python's  value == False : true of False and of the number 0, not of NaN.
EqFalse(v) == (v.k = "bool" /\ v.n = 0) \/ (v.k = "num" /\ v.n = 0)
IsTrue(v) == v.k = "bool" /\ v.n = 1
IsNaN(v) == v.k = "nan"

Columns == {"Close", "50MA", "150MA", "200MA", "200MA_TREND",
            "200MA_TREND_1M", "200MA_TREND_3M", "200MA_TREND_6M",
            "50MA>>", "150MA>200MA", "52WK_TREND"}

(***************************************************************************)
(* Loops over the rows are written by halving the range of rows, because   *)
(* TLC evaluates a recursion on the Java stack: the rows are still visited *)
(* in order, each with the values the row before it left.                  *)
(*                                                                         *)
(* df['Close'].rolling(window).mean() (line 59): the running window sum,   *)
(* adding the entering value and removing the leaving one; NaN until the   *)
(* window is full.  RollSum is the sums of rows lo..hi, given the sum of   *)
(* row lo-1.                                                               *)
(***************************************************************************)
RECURSIVE RollSum(_, _, _, _, _)
RollSum(close, window, lo, hi, prev) ==
    IF lo = hi
    THEN <<prev + close[lo] - (IF lo > window THEN close[lo - window] ELSE 0)>>
    ELSE LET mid == (lo + hi) \div 2
             left == RollSum(close, window, lo, mid, prev)
         IN  left \o RollSum(close, window, mid + 1, hi, left[Len(left)])

\* Mutant: rolling(window, min_periods=1), a mean from the first row on.
rolling_mean_MinPeriods(close, window) ==
    IF Len(close) = 0 THEN <<>>
    ELSE LET sums == RollSum(close, window, 1, Len(close), 0)
         IN  [i \in 1..Len(close) |->
                 Num(sums[i], IF i < window THEN i ELSE window)]

rolling_mean(close, window) ==
    IF Len(close) = 0 THEN <<>>
    ELSE LET sums == RollSum(close, window, 1, Len(close), 0)
         IN  [i \in 1..Len(close) |->
                 IF i < window THEN NaN ELSE Num(sums[i], window)]

\* max / min of close[lo..hi]
RECURSIVE WinMax(_, _, _)
WinMax(close, lo, hi) ==
    IF lo = hi THEN close[hi]
    ELSE LET mid == (lo + hi) \div 2
             l == WinMax(close, lo, mid)
             r == WinMax(close, mid + 1, hi)
         IN  IF l > r THEN l ELSE r

RECURSIVE WinMin(_, _, _)
WinMin(close, lo, hi) ==
    IF lo = hi THEN close[hi]
    ELSE LET mid == (lo + hi) \div 2
             l == WinMin(close, lo, mid)
             r == WinMin(close, mid + 1, hi)
         IN  IF l < r THEN l ELSE r

\* df['Close'].rolling(window=52*7).max() and .min() (lines 89-91)
rolling_max(close, window) ==
    [i \in 1..Len(close) |->
        IF i < window THEN NaN ELSE Num(WinMax(close, i - window + 1, i), 1)]

rolling_min(close, window) ==
    [i \in 1..Len(close) |->
        IF i < window THEN NaN ELSE Num(WinMin(close, i - window + 1, i), 1)]

(***************************************************************************)
(* The body of the iterrows loop (lines 67-75): from the counter and the   *)
(* previous row's 200MA to the counter written to this row.                *)
(***************************************************************************)
\* Mutant: the counter is not reset when the 200MA fails to rise.
TrendStep_NoReset(cnt, prev_200ma, curr_200ma) ==
    IF prev_200ma.k # "none" /\ Gt(curr_200ma, prev_200ma) THEN cnt + 1 ELSE cnt

\* Mutant: curr_200ma >= prev_200ma.
TrendStep_GE(cnt, prev_200ma, curr_200ma) ==
    IF prev_200ma.k # "none" /\ (Gt(curr_200ma, prev_200ma)
                                  \/ (curr_200ma.k = "num" /\ prev_200ma.k = "num"
                                      /\ curr_200ma.n * prev_200ma.d
                                           = prev_200ma.n * curr_200ma.d))
    THEN cnt + 1 ELSE 0

\* Mutant: not (curr_200ma < prev_200ma or curr_200ma == prev_200ma), which
\* is True as soon as one side is NaN.
TrendStep_NotLe(cnt, prev_200ma, curr_200ma) ==
    IF prev_200ma.k # "none"
       /\ ~(Lt(curr_200ma, prev_200ma)
            \/ (curr_200ma.k = "num" /\ prev_200ma.k = "num"
                /\ curr_200ma.n * prev_200ma.d = prev_200ma.n * curr_200ma.d))
    THEN cnt + 1 ELSE 0

TrendStep(cnt, prev_200ma, curr_200ma) ==
    IF prev_200ma.k # "none" /\ Gt(curr_200ma, prev_200ma) THEN cnt + 1 ELSE 0

\* The loop of lines 63-75 over rows lo..hi in order, entered with the
\* counter and the 200MA of row lo-1; the 200MA_TREND values of rows lo..hi.
RECURSIVE TrendLoop(_, _, _, _, _)
TrendLoop(ma200, lo, hi, cnt, prev_200ma) ==
    IF lo = hi
    THEN <<TrendStep(cnt, prev_200ma, ma200[lo])>>
    ELSE LET mid == (lo + hi) \div 2
             left == TrendLoop(ma200, lo, mid, cnt, prev_200ma)
         IN  left \o TrendLoop(ma200, mid + 1, hi, left[Len(left)], ma200[mid])

\* cnt = 0, prev_200ma = None (lines 63-64), then the loop
trend_200ma(ma200) ==
    IF Len(ma200) = 0 THEN <<>> ELSE TrendLoop(ma200, 1, Len(ma200), 0, None)

\* df['200MA_TREND'] >= days (lines 78-80)
TrendFlag(trend, days) == trend >= days

\* (df['50MA'] > df['150MA']) & (df['50MA'] > df['150MA']) (line 83)
Ma50Above(ma50, ma150, ma200) == Gt(ma50, ma150) /\ Gt(ma50, ma150)

\* df['150MA'] > df['200MA'] (line 86)
Ma150Above200(ma150, ma200) == Gt(ma150, ma200)

\* Mutant: 1.25 in place of 1.3 for the 52-week low.
Wk52Trend_125(c, hi, lo) ==
    (Lt(c, Times(hi, 5, 4)) \/ Gt(c, Times(hi, 3, 4))) /\ Gt(c, Times(lo, 5, 4))

\* lines 89-91
Wk52Trend(c, hi, lo) ==
    (Lt(c, Times(hi, 5, 4)) \/ Gt(c, Times(hi, 3, 4))) /\ Gt(c, Times(lo, 13, 10))

(***************************************************************************)
(* _process_ticker (lines 46-93): the annotated frame of a Close series,   *)
(* a sequence of rows, each a function on Columns.                         *)
(***************************************************************************)
_process_ticker(close) ==
    LET ma50 == rolling_mean(close, SMA_SHORT)
        ma150 == rolling_mean(close, SMA_MID)
        ma200 == rolling_mean(close, SMA_LONG)
        trend == trend_200ma(ma200)
        hi == rolling_max(close, WK52)
        lo == rolling_min(close, WK52)
    IN  [i \in 1..Len(close) |->
            LET c == Num(close[i], 1)
            IN  [col \in Columns |->
                    CASE col = "Close" -> c
                      [] col = "50MA" -> ma50[i]
                      [] col = "150MA" -> ma150[i]
                      [] col = "200MA" -> ma200[i]
                      [] col = "200MA_TREND" -> Num(trend[i], 1)
                      [] col = "200MA_TREND_1M" -> Bool(TrendFlag(trend[i], TREND_1M))
                      [] col = "200MA_TREND_3M" -> Bool(TrendFlag(trend[i], TREND_3M))
                      [] col = "200MA_TREND_6M" -> Bool(TrendFlag(trend[i], TREND_6M))
                      [] col = "50MA>>" -> Bool(Ma50Above(ma50[i], ma150[i], ma200[i]))
                      [] col = "150MA>200MA" -> Bool(Ma150Above200(ma150[i], ma200[i]))
                      [] col = "52WK_TREND" -> Bool(Wk52Trend(c, hi[i], lo[i]))]]

(***************************************************************************)
(* Close series the data source can return.                                *)
(***************************************************************************)
Linear(a, b, n) == [i \in 1..n |-> a + b * (i - 1)]
Constant(c, n) == [i \in 1..n |-> c]
Abs(x) == IF x < 0 THEN -x ELSE x
\* falls to row m, then rises
Vee(a, b, m, n) == [i \in 1..n |-> a + b * Abs(i - 1 - m)]
\* rises to row m, then falls
Peak(a, b, m, n) == [i \in 1..n |-> a + b * (m - Abs(i - 1 - m))]
\* a triangle wave of the given period
Wave(a, b, period, n) ==
    [i \in 1..n |-> a + b * Abs(((i - 1) % period) - period \div 2)]
\* c, c+1, c, c+1, ...
Alternating(c, n) == [i \in 1..n |-> c + ((i - 1) % 2)]

\* Start prices of the rising series, on both sides of the price at which a
\* 400-row line stops being 30% above its 52-week low.
StartPrices == {1, 1173, 1174, 2347, 2348}

Series ==
    {<<>>}
    \cup {Linear(a, b, 400) : a \in StartPrices, b \in {1, 2}}
    \cup {Linear(1, 1, MaxRows), Linear(2000, 1, MaxRows)}
    \cup {Linear(1, 1, n) : n \in {1, SMA_LONG - 1, SMA_LONG, SMA_LONG + 1,
                                   SMA_LONG + TREND_6M - 1, SMA_LONG + TREND_6M}}
    \cup {Constant(7, n) : n \in {1, SMA_LONG - 1, SMA_LONG, MaxRows}}
    \cup {Vee(500, 1, 100, MaxRows), Peak(10, 1, 300, MaxRows),
          Wave(10, 1, 120, MaxRows), Wave(10, 1, 120, 250),
          Alternating(5, MaxRows)}

\* What yf.download (line 97) can do: return a series, or raise.
Responses ==
    {[ok |-> TRUE, close |-> s] : s \in Series} \cup {[ok |-> FALSE, close |-> <<>>]}

\* _process_ticker of every series of the data source, computed once.
AnnotatedFrames == [s \in Series |-> _process_ticker(s)]

\* Mutant: the download comes before the test of the ticker.
load_ticker_data_FetchFirst(ticker, response) ==
    IF ~response.ok
    THEN [raised |-> "download failed", fetched |-> TRUE, df |-> <<>>]
    ELSE IF ticker # <<>>
    THEN [raised |-> "none", fetched |-> TRUE, df |-> AnnotatedFrames[response.close]]
    ELSE [raised |-> "No ticker defined.", fetched |-> TRUE, df |-> <<>>]

(***************************************************************************)
(* load_ticker_data (lines 33-105) of a ticker, with the response the data *)
(* source gives if it is asked: whether the call raised, whether the data  *)
(* source was called, and the frame returned.                              *)
(***************************************************************************)
load_ticker_data(ticker, response) ==
    IF ticker # <<>>
    THEN IF response.ok
         THEN [raised |-> "none", fetched |-> TRUE,
               df |-> AnnotatedFrames[response.close]]
         ELSE [raised |-> "download failed", fetched |-> TRUE, df |-> <<>>]
    ELSE [raised |-> "No ticker defined.", fetched |-> FALSE, df |-> <<>>]

\* The default value of the parameter conditions (lines 107-114).
DefaultConditions ==
    <<"200MA_TREND_1M", "200MA_TREND_3M", "200MA_TREND_6M",
      "50MA>>", "150MA>200MA", "52WK_TREND">>

(***************************************************************************)
(* check_conditions (lines 107-128): "False" as soon as a named column of  *)
(* the last row == False, else "True"; df.iloc[-1] raises IndexError on a  *)
(* frame without rows.                                                     *)
(***************************************************************************)
check_conditions(df, conditions) ==
    IF conditions # <<>> /\ Len(df) = 0 THEN "IndexError"
    ELSE IF \E j \in 1..Len(conditions) : EqFalse(df[Len(df)][conditions[j]])
         THEN "False"
         ELSE "True"

(***************************************************************************)
(* str.split(", ") (line 146): the pieces of text between the              *)
(* non-overlapping occurrences of ", ", found from left to right.  A text  *)
(* is a sequence of characters.  SplitFrom is the split of text[p..], with *)
(* piece the characters read since the last separator.                     *)
(***************************************************************************)
RECURSIVE SplitFrom(_, _, _)
SplitFrom(text, p, piece) ==
    IF p > Len(text) THEN <<piece>>
    ELSE IF p < Len(text) /\ text[p] = "," /\ text[p + 1] = " "
         THEN <<piece>> \o SplitFrom(text, p + 2, <<>>)
         ELSE SplitFrom(text, p + 1, Append(piece, text[p]))

split(text) == SplitFrom(text, 1, <<>>)

\* Texts the user types into the text input.
Texts ==
    { <<>>,
      <<"A", "A", "A">>,
      <<"A", "A", "A", ",", " ", "B", "B", "B">>,
      <<"A", "A", "A", ",", " ", ",", " ", "B", "B", "B">>,
      <<"A", "A", "A", ",", "B", "B", "B">>,
      <<"A", ",", " ", "A">>,
      <<"A", ",", " ", "B", ",", " ", "A">>,
      <<"A", ",", " ">>,
      <<",", " ">> }

\* Condition lists a caller of check_conditions passes.
ConditionLists ==
    {DefaultConditions, <<>>} \cup {<<c>> : c \in Columns}
    \cup {<<"52WK_TREND", "200MA">>, <<"150MA", "150MA>200MA">>}

VARIABLES
    text_input,   \* the value of the text input widget (line 143)
    stock_list,   \* the list of tickers (line 146); <<>> while the text is empty
    pc,           \* "idle", "loop" (line 160), "done" (after line 178), "raised"
    idx,          \* position in stock_list of the next ticker of the loop
    tmp_df,       \* the frame of the last ticker loaded (line 164)
    df_export,    \* the Result Table (lines 153, 172)
    rendered,     \* "none", "table" (line 178) or "no_suitable" (line 176)
    downloads,    \* the tickers yf.download was called with in this script run
    error,        \* the exception that ended run(), "none" if none
    call,         \* arguments of a direct call of check_conditions
    ret           \* its result

vars == <<text_input, stock_list, pc, idx, tmp_df, df_export, rendered,
          downloads, error, call, ret>>
runVars == <<text_input, stock_list, pc, idx, tmp_df, df_export, rendered,
             downloads, error>>
evalVars == <<call, ret>>

NoCall == [df |-> <<>>, conditions |-> <<>>]

Init ==
    /\ text_input = <<>>
    /\ stock_list = <<>>
    /\ pc = "idle"
    /\ idx = 1
    /\ tmp_df = <<>>
    /\ df_export = <<>>
    /\ rendered = "none"
    /\ downloads = <<>>
    /\ error = "none"
    /\ call = NoCall
    /\ ret = "none"

(***************************************************************************)
(* The user changes the text input: Streamlit runs the script again with   *)
(* the button not pressed (lines 143-148), whatever the last run did.      *)
(***************************************************************************)
TextInput(text) ==
    /\ text # text_input
    /\ text_input' = text
    /\ stock_list' = IF text # <<>> THEN split(text) ELSE <<>>
    /\ pc' = "idle"
    /\ idx' = 1
    /\ tmp_df' = <<>>
    /\ df_export' = <<>>
    /\ rendered' = "none"
    /\ downloads' = <<>>
    /\ error' = "none"
    /\ UNCHANGED evalVars

(***************************************************************************)
(* The user presses "Run Screener": the script runs again, and with a      *)
(* non-empty text (line 145) reaches the loop with an empty Result Table.  *)
(***************************************************************************)
RunScreener ==
    /\ pc \in {"idle", "done", "raised"}
    /\ text_input # <<>>
    /\ pc' = "loop"
    /\ idx' = 1
    /\ tmp_df' = <<>>
    /\ df_export' = <<>>
    /\ rendered' = "none"
    /\ downloads' = <<>>
    /\ error' = "none"
    /\ UNCHANGED <<text_input, stock_list, evalVars>>

\* The row appended for a passing ticker (lines 168-169).
ResultRow(stock, df) == [Ticker |-> stock, Data |-> df[Len(df)]]

\* Mutant: pd.concat([last_row_df, df_export]).
Concat_Prepend(table, row) == <<row>> \o table

\* pd.concat([df_export, last_row_df], ignore_index=True) (line 172)
Concat(table, row) == Append(table, row)

\* Mutant: check_conditions(tmp_df) without the test of tmp_df.empty.
Evaluate_NoEmptyTest(df) ==
    LET r == check_conditions(df, DefaultConditions)
    IN  [raised |-> IF r = "IndexError" THEN r ELSE "none", pass |-> r = "True"]

(***************************************************************************)
(* not tmp_df.empty and check_conditions(tmp_df) (line 167): the exception *)
(* it ends with ("none" if none) and its value.  check_conditions is       *)
(* called only on a frame with rows.                                       *)
(***************************************************************************)
Evaluate(df) ==
    IF Len(df) = 0 THEN [raised |-> "none", pass |-> FALSE]
    ELSE LET r == check_conditions(df, DefaultConditions)
         IN  [raised |-> IF r = "IndexError" THEN r ELSE "none", pass |-> r = "True"]

(***************************************************************************)
(* One iteration of the loop (lines 160-172).  An exception is caught      *)
(* nowhere: it ends run().                                                 *)
(***************************************************************************)
ProcessStock ==
    /\ pc = "loop"
    /\ idx <= Len(stock_list)
    /\ \E response \in Responses :
          LET stock == stock_list[idx]
              loaded == load_ticker_data(stock, response)
              verdict == Evaluate(loaded.df)
          IN  /\ downloads' = IF loaded.fetched THEN Append(downloads, stock)
                                                ELSE downloads
              /\ IF loaded.raised # "none"
                 THEN /\ pc' = "raised"
                      /\ error' = loaded.raised
                      /\ UNCHANGED <<idx, tmp_df, df_export>>
                 ELSE IF verdict.raised # "none"
                 THEN /\ pc' = "raised"
                      /\ error' = verdict.raised
                      /\ tmp_df' = loaded.df
                      /\ UNCHANGED <<idx, df_export>>
                 ELSE /\ pc' = "loop"
                      /\ error' = "none"
                      /\ idx' = idx + 1
                      /\ tmp_df' = loaded.df
                      /\ df_export' = IF verdict.pass
                                      THEN Concat(df_export, ResultRow(stock, loaded.df))
                                      ELSE df_export
    /\ UNCHANGED <<text_input, stock_list, rendered, evalVars>>

\* After the loop (lines 175-178).
Render ==
    /\ pc = "loop"
    /\ idx > Len(stock_list)
    /\ rendered' = IF df_export = <<>> THEN "no_suitable" ELSE "table"
    /\ pc' = "done"
    /\ UNCHANGED <<text_input, stock_list, idx, tmp_df, df_export, downloads,
                   error, evalVars>>

Next ==
    \/ \E text \in Texts : TextInput(text)
    \/ RunScreener
    \/ ProcessStock
    \/ Render

Spec == Init /\ [][Next]_vars

(***************************************************************************)
(* A direct call of check_conditions on the annotated frame of a series.   *)
(***************************************************************************)
CallCheckConditions ==
    /\ \E s \in Series, conditions \in ConditionLists :
          /\ call' = [df |-> AnnotatedFrames[s], conditions |-> conditions]
          /\ ret' = check_conditions(AnnotatedFrames[s], conditions)
    /\ UNCHANGED runVars

NextEval == CallCheckConditions

SpecEval == Init /\ [][NextEval]_vars

(***************************************************************************)
(* Properties.                                                             *)
(***************************************************************************)
Close(df, i) == df[i]["Close"].n
Ma200(df, i) == df[i]["200MA"]
Trend(df, i) == df[i]["200MA_TREND"].n
LastRow(df) == df[Len(df)]
\* the 200MA of row i is strictly greater than that of row i-1
Rises(df, i) == i > 1 /\ Gt(Ma200(df, i), Ma200(df, i - 1))
\* every default condition is true on the final row
AllSix(df) == \A j \in 1..Len(DefaultConditions) : IsTrue(LastRow(df)[DefaultConditions[j]])
\* a step that completes one iteration of the loop; tmp_df' is the frame of
\* stock_list[idx]
LoopStep == pc = "loop" /\ pc' = "loop" /\ idx' = idx + 1
\* the step appends the final row of the ticker's frame, tagged
Appended == df_export' = Append(df_export, [Ticker |-> stock_list[idx],
                                            Data |-> LastRow(tmp_df')])
AAA == <<"A", "A", "A">>
BBB == <<"B", "B", "B">>

\* C1: a failure while processing one ticker does not abort the batch: a run
\* that has ended has loaded and evaluated every ticker of the list and has
\* rendered the Result Table or the "No Suitable Tickers" message.  Stated
\* for the failure load_ticker_data raises by itself, the empty ticker: runs
\* in which the data source raised are left aside.
C1_FailureDoesNotAbort ==
    (pc \in {"done", "raised"} /\ error # "download failed") =>
        /\ idx = Len(stock_list) + 1
        /\ rendered \in {"table", "no_suitable"}

\* C2: on a non-empty annotated frame whose named final-row values are true,
\* false or undefined, check_conditions returns true iff every named value
\* is true, and returns false if one of them is false or undefined.
C2_CheckConditions ==
    LET df == call.df
        conds == call.conditions
    IN  (/\ ret # "none"
         /\ Len(df) > 0
         /\ \A j \in 1..Len(conds) : LastRow(df)[conds[j]].k \in {"bool", "nan"})
        => /\ (ret = "True") <=> (\A j \in 1..Len(conds) : IsTrue(LastRow(df)[conds[j]]))
           /\ (\E j \in 1..Len(conds) : ~IsTrue(LastRow(df)[conds[j]])) => ret = "False"

\* C3: 200MA_TREND is 0 on the first row and on every later row it is the
\* previous row's counter plus 1 if the 200MA rose strictly, 0 otherwise; so
\* on the last row e of a maximal run of strictly rising 200MA values the
\* counter is n-1, n the length of the run: the rows e-200MA_TREND..e are
\* that maximal run.
C3_TrendIsStreakCounter ==
    LET n == Len(tmp_df)
    IN  /\ \A i \in 1..n :
              Trend(tmp_df, i) = IF Rises(tmp_df, i) THEN Trend(tmp_df, i - 1) + 1 ELSE 0
        /\ \A e \in 1..n :
              (e = n \/ ~Rises(tmp_df, e + 1)) =>
                  LET s == e - Trend(tmp_df, e)
                  IN  /\ s >= 1
                      /\ ~Rises(tmp_df, s)
                      /\ \A t \in (s + 1)..e : Rises(tmp_df, t)

\* a counter that has reached a month, reset on the next row, with a later
\* run after it
C3_Witness ==
    \E i \in 1..(Len(tmp_df) - 2) :
        /\ Trend(tmp_df, i) >= TREND_1M
        /\ Trend(tmp_df, i + 1) = 0
        /\ \E j \in (i + 2)..Len(tmp_df) : Trend(tmp_df, j) > 0

\* C4 as stated: for a loaded series of fewer than 200 rows the 200MA is
\* undefined and 200MA_TREND is 0 on every row, check_conditions with the
\* default conditions returns false, and no row of the Result Table is the
\* ticker's.
C4_Original ==
    (pc \in {"loop", "done"} /\ idx > 1 /\ Len(tmp_df) < SMA_LONG) =>
        /\ \A i \in 1..Len(tmp_df) : IsNaN(Ma200(tmp_df, i)) /\ Trend(tmp_df, i) = 0
        /\ check_conditions(tmp_df, DefaultConditions) = "False"
        /\ \A r \in 1..Len(df_export) : df_export[r].Data \notin {tmp_df[i] : i \in 1..Len(tmp_df)}

\* C4 as amended: for a series of fewer than 200 rows the 200MA is undefined
\* and 200MA_TREND is 0 on every row, check_conditions with the default
\* conditions returns false when the series has a row, and the iteration that
\* loads the series leaves the Result Table as it was.
C4_ShortSeriesRejected ==
    /\ [](Len(tmp_df) < SMA_LONG =>
            /\ \A i \in 1..Len(tmp_df) : IsNaN(Ma200(tmp_df, i)) /\ Trend(tmp_df, i) = 0
            /\ Len(tmp_df) > 0 => check_conditions(tmp_df, DefaultConditions) = "False")
    /\ [][LoopStep /\ Len(tmp_df') < SMA_LONG => df_export' = df_export]_vars

\* a loaded series of 199 rows, rejected
C4_Witness ==
    /\ pc = "done"
    /\ idx > 1
    /\ Len(tmp_df) = SMA_LONG - 1
    /\ rendered = "no_suitable"

\* the loaded frame is that of a 400-row series a + b*i with a > 0 and b > 0
IsRisingLine(df) ==
    /\ Len(df) = 400
    /\ Close(df, 1) > 0
    /\ Close(df, 2) > Close(df, 1)
    /\ \A i \in 2..Len(df) : Close(df, i) - Close(df, i - 1) = Close(df, 2) - Close(df, 1)
StartOf(df) == Close(df, 1)
SlopeOf(df) == Close(df, 2) - Close(df, 1)

C6_EmptySeriesIsNoMatch ==
    /\ [](/\ error # "IndexError"
          /\ (stock_list = <<AAA, BBB>> /\ pc = "done" /\ tmp_df = <<>> /\ df_export # <<>>)
                => (/\ Len(df_export) = 1
                    /\ df_export[1].Ticker = AAA
                    /\ rendered = "table"))
    /\ [][pc = "loop" /\ idx <= Len(stock_list) /\ tmp_df' = <<>> /\ pc' # "idle"
            /\ downloads' # downloads /\ error' # "download failed"
          => /\ LoopStep
             /\ df_export' = df_export]_vars

\* the batch AAA, BBB rendered with AAA passing and BBB empty
C6_Witness ==
    /\ stock_list = <<AAA, BBB>>
    /\ pc = "done"
    /\ tmp_df = <<>>
    /\ downloads = <<AAA, BBB>>
    /\ Len(df_export) = 1
    /\ df_export[1].Ticker = AAA
    /\ rendered = "table"

\* the tickers of the table, in order, among the first m tickers of the list
InListOrder(table, list, m) ==
    \E f \in [1..Len(table) -> 1..m] :
        /\ \A r \in 1..Len(table) : table[r].Ticker = list[f[r]]
        /\ \A r \in 1..(Len(table) - 1) : f[r] < f[r + 1]

\* C7: the Result Table holds the final rows of the processed tickers that
\* passed, one per passing list entry, in input order: it has no more rows
\* than tickers processed, its tickers are list entries in list order, and
\* within a run each iteration appends the ticker's final row if the frame
\* has rows and all six conditions are true, and every other step leaves the
\* table as it was.
C7_ResultTable ==
    /\ [](/\ Len(df_export) <= idx - 1
          /\ idx - 1 <= Len(stock_list)
          /\ InListOrder(df_export, stock_list, idx - 1))
    /\ [][pc = "loop" /\ pc' # "idle" =>
            IF LoopStep /\ Len(tmp_df') > 0 /\ AllSix(tmp_df')
            THEN Appended ELSE df_export' = df_export]_vars

\* a ticker listed twice, passing twice with different series
C7_Witness ==
    /\ pc = "done"
    /\ Len(df_export) = 2
    /\ df_export[1].Ticker = df_export[2].Ticker
    /\ df_export[1].Data # df_export[2].Data
    /\ Len(stock_list) = 3

\* C8: with an empty text no run starts and nothing is fetched; the loop
\* iteration of an empty ticker raises "No ticker defined." without calling
\* the data source.
C8_EmptyTickerRejected ==
    /\ [](text_input = <<>> =>
            pc = "idle" /\ downloads = <<>> /\ rendered = "none" /\ df_export = <<>>)
    /\ [][(/\ pc = "loop"
           /\ idx <= Len(stock_list)
           /\ pc' # "idle"
           /\ stock_list[idx] = <<>>)
          => /\ pc' = "raised"
             /\ error' = "No ticker defined."
             /\ downloads' = downloads]_vars

\* the empty ticker of AAA, , BBB rejected after AAA was fetched
C8_Witness ==
    /\ pc = "raised"
    /\ error = "No ticker defined."
    /\ idx = 2
    /\ stock_list[idx] = <<>>
    /\ downloads = <<AAA>>

\* every row has the same Close
IsFlat(df) == \A i \in 1..Len(df) : Close(df, i) = Close(df, 1)

\* C9: for a series whose Close is the same on every row, 200MA_TREND is 0
\* and 200MA_TREND_1M is false on every row, and the iteration that loads it
\* leaves the Result Table as it was.
C9_FlatSeriesExcluded ==
    /\ [](IsFlat(tmp_df) =>
            \A i \in 1..Len(tmp_df) :
                Trend(tmp_df, i) = 0 /\ EqFalse(tmp_df[i]["200MA_TREND_1M"]))
    /\ [][LoopStep /\ IsFlat(tmp_df') => df_export' = df_export]_vars

\* a flat series long enough for the 200MA to be defined, loaded after a
\* ticker that passed
C9_Witness ==
    /\ pc = "done"
    /\ IsFlat(tmp_df)
    /\ Len(tmp_df) > SMA_LONG + TREND_1M
    /\ Len(df_export) = 1

\* C10: on row i (from 0) 200MA_TREND is at most max(0, i - 199); on every row
\* 200MA_TREND_6M implies 200MA_TREND_3M implies 200MA_TREND_1M; an iteration
\* that appends a row has loaded a series of at least 380 rows.
C10_TrendBound ==
    /\ [](\A i \in 1..Len(tmp_df) :
            /\ Trend(tmp_df, i) <= (IF i > SMA_LONG THEN i - SMA_LONG ELSE 0)
            /\ IsTrue(tmp_df[i]["200MA_TREND_6M"]) => IsTrue(tmp_df[i]["200MA_TREND_3M"])
            /\ IsTrue(tmp_df[i]["200MA_TREND_3M"]) => IsTrue(tmp_df[i]["200MA_TREND_1M"]))
    /\ [][LoopStep /\ df_export' # df_export =>
            Len(tmp_df') >= SMA_LONG + TREND_6M]_vars

\* a series of exactly 380 rows in the table, its counter at the bound
C10_Witness ==
    /\ pc = "done"
    /\ Len(tmp_df) = SMA_LONG + TREND_6M
    /\ Trend(tmp_df, Len(tmp_df)) = TREND_6M
    /\ df_export # <<>>
    /\ LastRow(df_export).Data = LastRow(tmp_df)
====
